---- MODULE Spec2Model ----
(***************************************************************************)
(* LogicEval: the pipeline of logiceval.py (semantic check, IR generation, *)
(* peephole optimisation, interpretation) as a state machine over one      *)
(* long-lived Interpreter.                                                 *)
(*                                                                         *)
(* Text is kept as Python keeps it: a string is a sequence of one-char     *)
(* strings, so that startswith, isalpha, `in` and sorted are computed on   *)
(* the characters.  An IR line is kept as the list line.split() yields:    *)
(* the generator and the optimizer build every line by joining non-empty,  *)
(* blank-free words with single blanks, so split() recovers these words;   *)
(* Text(line) is the joined string for the tests made on the whole line.   *)
(***************************************************************************)
EXTENDS Integers, Sequences, FiniteSets, TLC

VARIABLES
    variables,   \* Interpreter.variables : name -> 0/1
    last_ir,     \* Interpreter.last_ir : block
    saved_code,  \* Interpreter.saved_code : name -> block
    out,         \* what the last process_input printed
    calls,       \* the Interpreter.execute calls of the last process_input
    history,     \* the programs given to process_input so far, with their ends
    optIn,       \* Optimizer.optimize: the block given
    optOut,      \* Optimizer.optimize: the block returned (<<>> before the call)
    optAgain     \* Optimizer.optimize called on optOut: the block returned

vars == <<variables, last_ir, saved_code, out, calls, history, optIn, optOut, optAgain>>

-----------------------------------------------------------------------------
(* Bounds *)

MaxRuleStmts == 3    \* statements one session of rules and inferences processes
MaxEvalStmts == 4    \* statements one session of sets, expressions and evals processes
MaxTableStmts == 3   \* statements one session of rules, named expressions and tables processes
MaxTruthStmts == 3   \* statements of a session that evaluates the operators
MaxSetStmts == 3     \* statements one session of sets and expressions processes
MaxErrTexts == 3     \* texts one session of failing and passing chunks reads
MaxPipeStmts == 3    \* statements one session over both front ends processes
MaxParseTexts == 1   \* texts one session of the parser reads
MaxTempTexts == 2    \* texts one session over identifiers spelled like temporaries reads
MaxFrameTexts == 3   \* texts one session of cached blocks and their tables reads
MaxInferTexts == 3   \* texts one session of rules with their inferences reads
MaxCmdTexts == 3     \* texts one session of commands and of names spelled like them reads
MaxStoreTexts == 3   \* texts one session of a rule, sets and its table reads
MaxFoldTexts == 2    \* texts one session of expressions the optimizer rewrites reads
MaxChunk == 2        \* statements of one program (one process_input call)
MaxBlockLen == 2     \* lines of a block given to the optimizer alone

-----------------------------------------------------------------------------
(* Characters and strings *)

UpperChars == <<"A","B","C","D","E","F","G","H","I","J","K","L","M",
                "N","O","P","Q","R","S","T","U","V","W","X","Y","Z">>
LowerChars == <<"a","b","c","d","e","f","g","h","i","j","k","l","m",
                "n","o","p","q","r","s","t","u","v","w","x","y","z">>
DigitChars == <<"0","1","2","3","4","5","6","7","8","9">>

\* The characters in code-point order (blank < digits < '=' < upper < '_' < lower).
CodePoints == <<" ">> \o DigitChars \o <<"=">> \o UpperChars \o <<"_">> \o LowerChars

Range(s) == {s[i] : i \in DOMAIN s}

\* F(v) with v evaluated once (a local variable of the code that is read many times)
Bind(v, F(_)) == CHOOSE y \in {F(w) : w \in {v}} : TRUE

Ord(c) == CHOOSE i \in DOMAIN CodePoints : CodePoints[i] = c

\* str.isalpha(): non-empty and every character a letter
isalpha(s) == Len(s) > 0 /\ \A i \in DOMAIN s : s[i] \in Range(UpperChars) \cup Range(LowerChars)

\* str.startswith(prefix)
startswith(s, prefix) == Len(prefix) <= Len(s) /\ SubSeq(s, 1, Len(prefix)) = prefix

\* Python's < on str: the first differing character decides, a proper prefix is smaller
StrLess(s, u) ==
    \E i \in 1..(Len(s) + 1) :
        /\ i <= Len(u)
        /\ SubSeq(s, 1, i - 1) = SubSeq(u, 1, i - 1)
        /\ (i = Len(s) + 1 \/ Ord(s[i]) < Ord(u[i]))

\* str(n) for n >= 0
RECURSIVE str(_)
str(n) == IF n < 10 THEN <<DigitChars[n + 1]>>
          ELSE str(n \div 10) \o <<DigitChars[(n % 10) + 1]>>

\* " ".join(parts): the line as the string the program holds
RECURSIVE Text(_)
Text(parts) == IF Len(parts) = 0 THEN <<>>
               ELSE IF Len(parts) = 1 THEN parts[1]
               ELSE parts[1] \o <<" ">> \o Text(Tail(parts))

\* sorted(list(S)) for a set of strings
RECURSIVE sorted(_)
sorted(S) == IF S = {} THEN <<>>
             ELSE LET m == CHOOSE x \in S : \A y \in S : x = y \/ StrLess(x, y)
                  IN  <<m>> \o sorted(S \ {m})

-----------------------------------------------------------------------------
(* Words of the IR *)

kEQ      == <<"=">>
k0       == <<"0">>
k1       == <<"1">>
kAND     == <<"A","N","D">>
kOR      == <<"O","R">>
kNOT     == <<"N","O","T">>
kIMPLIES == <<"I","M","P","L","I","E","S">>
kXOR     == <<"X","O","R">>
kTABLE   == <<"T","A","B","L","E">>
kEVAL    == <<"E","V","A","L">>
kINFER   == <<"I","N","F","E","R">>
kLAST_EXPR == <<"L","A","S","T","_","E","X","P","R">>
kt_res   == <<"t","_","r","e","s">>
kt       == <<"t">>

OpWords == {kAND, kOR, kNOT, kIMPLIES, kXOR}

-----------------------------------------------------------------------------
(* AST nodes (ast_nodes.py).  A missing name (None) is the empty string.    *)

None == <<>>

Var(name) == [node |-> "Var", name |-> name]
Literal(value) == [node |-> "Literal", value |-> value]
UnaryOp(op, operand) == [node |-> "UnaryOp", op |-> op, operand |-> operand]
BinaryOp(left, op, right) == [node |-> "BinaryOp", left |-> left, op |-> op, right |-> right]

ExprStmt(expr, name) == [node |-> "ExprStmt", expr |-> expr, name |-> name]
SetStmt(name, value) == [node |-> "SetStmt", name |-> name, value |-> value]
TableStmt(target_id) == [node |-> "TableStmt", target_id |-> target_id]
EvalStmt == [node |-> "EvalStmt"]
RuleStmt(name, expr) == [node |-> "RuleStmt", name |-> name, expr |-> expr]
InferStmt(rule_names) == [node |-> "InferStmt", rule_names |-> rule_names]

-----------------------------------------------------------------------------
(* Lexer (lexer.py).  A token is [type, value]; the line and column a       *)
(* token also carries are read by error messages only and are left out.     *)
(* tokenize returns [tokens, error]: error is the exception raised, <<>>     *)
(* when none was.                                                           *)

Token(type, value) == [type |-> type, value |-> value]

\* char.isspace(), char.isalpha() and char.isalnum() on one character
isspace(char) == char \in {" ", "\n", "\t"}
char_isalpha(char) == char \in Range(UpperChars) \cup Range(LowerChars)
char_isalnum(char) == char_isalpha(char) \/ char \in Range(DigitChars)

\* where the inner loop of the identifier branch stops
RECURSIVE ident_end(_, _)
ident_end(text, pos) ==
    IF pos <= Len(text) /\ (char_isalnum(text[pos]) \/ text[pos] = "_")
    THEN ident_end(text, pos + 1)
    ELSE pos

\* the token type of a word
word_type(value) ==
    CASE value = <<"e","x","p","r">> -> "KW_EXPR"
      [] value = <<"s","e","t">> -> "KW_SET"
      [] value = <<"t","a","b","l","e">> -> "KW_TABLE"
      [] value = <<"e","v","a","l">> -> "KW_EVAL"
      [] value = <<"i","n","f","e","r">> -> "KW_INFER"
      [] value = <<"x","o","r">> -> "XOR"
      [] OTHER -> "ID"

single_char_tokens ==
    [c \in {"&", "|", "!", "^", "(", ")", ";", "=", ":", ","} |->
        CASE c = "&" -> "AND"
          [] c = "|" -> "OR"
          [] c = "!" -> "NOT"
          [] c = "^" -> "XOR"
          [] c = "(" -> "LPAREN"
          [] c = ")" -> "RPAREN"
          [] c = ";" -> "SEMICOL"
          [] c = "=" -> "EQUAL"
          [] c = ":" -> "COLON"
          [] c = "," -> "COMMA"]

\* the loop of tokenize from position pos (1-based) on
RECURSIVE tokenize_from(_, _, _)
tokenize_from(text, pos, tokens) ==
    IF pos > Len(text)
    THEN [tokens |-> Append(tokens, Token("EOF", <<>>)), error |-> <<>>]
    ELSE IF isspace(text[pos]) THEN tokenize_from(text, pos + 1, tokens)
    ELSE IF char_isalpha(text[pos])
    THEN Bind(ident_end(text, pos), LAMBDA e :
             tokenize_from(text, e, Append(tokens,
                 Token(word_type(SubSeq(text, pos, e - 1)), SubSeq(text, pos, e - 1)))))
    ELSE IF text[pos] \in {"0", "1"}
    THEN tokenize_from(text, pos + 1, Append(tokens, Token("BOOL", <<text[pos]>>)))
    ELSE IF text[pos] = "-"
    THEN IF pos + 1 <= Len(text) /\ text[pos + 1] = ">"
         THEN tokenize_from(text, pos + 2, Append(tokens, Token("IMPLIES", <<"-", ">">>)))
         ELSE [tokens |-> tokens, error |-> <<"unexpected_character", text[pos]>>]
    ELSE IF text[pos] \in DOMAIN single_char_tokens
    THEN tokenize_from(text, pos + 1, Append(tokens, Token(single_char_tokens[text[pos]], <<text[pos]>>)))
    ELSE [tokens |-> tokens, error |-> <<"unexpected_character", text[pos]>>]

tokenize(text) == tokenize_from(text, 1, <<>>)

-----------------------------------------------------------------------------
(* Parser (parser.py).  A parse method returns [node, pos, error]: the node *)
(* built, the position (1-based) of the current token after it, and the     *)
(* exception raised (<<>> when none was).  The token list ends with EOF,    *)
(* which no method eats, so the current token is always tokens[pos].        *)

Parsed(node, pos) == [node |-> node, pos |-> pos, error |-> <<>>]
ParseError(msg) == [node |-> None, pos |-> 0, error |-> msg]

\* the rest of a method after a step r: skipped when r raised
Then(r, F(_)) == IF r.error # <<>> THEN r ELSE CHOOSE y \in {F(w) : w \in {r}} : TRUE

eat(tokens, pos, token_type) ==
    IF tokens[pos].type = token_type THEN Parsed(None, pos + 1)
    ELSE ParseError(<<"expected", token_type, tokens[pos].type>>)

peek(tokens, pos) == IF pos + 1 <= Len(tokens) THEN tokens[pos + 1] ELSE tokens[Len(tokens)]

\* the operator text of a token value, as the AST keeps it
op_text(value) ==
    CASE value = <<"&">> -> "&"
      [] value = <<"|">> -> "|"
      [] value = <<"!">> -> "!"
      [] value = <<"-", ">">> -> "->"

RECURSIVE parse_implication(_, _)
RECURSIVE parse_or_loop(_, _)
RECURSIVE parse_xor_loop(_, _)
RECURSIVE parse_and_loop(_, _)
RECURSIVE parse_not(_, _)

parse_expression(tokens, pos) == parse_implication(tokens, pos)

parse_primary(tokens, pos) ==
    IF tokens[pos].type = "ID" THEN Parsed(Var(tokens[pos].value), pos + 1)
    ELSE IF tokens[pos].type = "BOOL" THEN Parsed(Literal(tokens[pos].value = <<"1">>), pos + 1)
    ELSE IF tokens[pos].type = "LPAREN"
    THEN Then(parse_expression(tokens, pos + 1), LAMBDA r :
             Then(eat(tokens, r.pos, "RPAREN"), LAMBDA e : Parsed(r.node, e.pos)))
    ELSE ParseError(<<"unexpected_token_in_expression", tokens[pos].type>>)

parse_not(tokens, pos) ==
    IF tokens[pos].type = "NOT"
    THEN Then(parse_not(tokens, pos + 1), LAMBDA r :
             Parsed(UnaryOp(op_text(tokens[pos].value), r.node), r.pos))
    ELSE parse_primary(tokens, pos)

\* the while loop of parse_and, with `node` and the position in r
parse_and_loop(tokens, r) ==
    IF tokens[r.pos].type = "AND"
    THEN Then(parse_not(tokens, r.pos + 1), LAMBDA right :
             parse_and_loop(tokens,
                 Parsed(BinaryOp(r.node, op_text(tokens[r.pos].value), right.node), right.pos)))
    ELSE r

parse_and(tokens, pos) ==
    Then(parse_not(tokens, pos), LAMBDA r : parse_and_loop(tokens, r))

\* the while loop of parse_xor: the operator is normalised to 'xor'
parse_xor_loop(tokens, r) ==
    IF tokens[r.pos].type = "XOR"
    THEN Then(parse_and(tokens, r.pos + 1), LAMBDA right :
             parse_xor_loop(tokens, Parsed(BinaryOp(r.node, "xor", right.node), right.pos)))
    ELSE r

parse_xor(tokens, pos) ==
    Then(parse_and(tokens, pos), LAMBDA r : parse_xor_loop(tokens, r))

\* the while loop of parse_or
parse_or_loop(tokens, r) ==
    IF tokens[r.pos].type = "OR"
    THEN Then(parse_xor(tokens, r.pos + 1), LAMBDA right :
             parse_or_loop(tokens,
                 Parsed(BinaryOp(r.node, op_text(tokens[r.pos].value), right.node), right.pos)))
    ELSE r

parse_or(tokens, pos) ==
    Then(parse_xor(tokens, pos), LAMBDA r : parse_or_loop(tokens, r))

\* (variant: `->` collected in a loop like the other operators, to the left)
RECURSIVE parse_implication_loop(_, _)
parse_implication_loop(tokens, r) ==
    IF tokens[r.pos].type = "IMPLIES"
    THEN Then(parse_or(tokens, r.pos + 1), LAMBDA right :
             parse_implication_loop(tokens,
                 Parsed(BinaryOp(r.node, op_text(tokens[r.pos].value), right.node), right.pos)))
    ELSE r

parse_implication_left(tokens, pos) ==
    Then(parse_or(tokens, pos), LAMBDA r : parse_implication_loop(tokens, r))

parse_implication(tokens, pos) ==
    Then(parse_or(tokens, pos), LAMBDA r :
        IF tokens[r.pos].type = "IMPLIES"
        THEN Then(parse_implication(tokens, r.pos + 1), LAMBDA right :
                 Parsed(BinaryOp(r.node, op_text(tokens[r.pos].value), right.node), right.pos))
        ELSE r)

\* (variant: the name is taken whenever an identifier follows `expr`)
expr_stmt_name_always(tokens, pos) ==
    IF tokens[pos].type = "ID" THEN tokens[pos].value ELSE None

\* the lookahead of parse_expr_stmt: the binding name, None when there is none;
\* pos is the position after `expr`
expr_stmt_name(tokens, pos) ==
    IF tokens[pos].type = "ID" /\ peek(tokens, pos).type \in {"ID", "LPAREN", "NOT", "BOOL"}
    THEN tokens[pos].value
    ELSE None

parse_expr_stmt(tokens, pos) ==
    Then(eat(tokens, pos, "KW_EXPR"), LAMBDA k :
        Bind(expr_stmt_name(tokens, k.pos), LAMBDA name :
            Then(parse_expression(tokens, IF name # None THEN k.pos + 1 ELSE k.pos), LAMBDA r :
                Then(eat(tokens, r.pos, "SEMICOL"), LAMBDA e :
                    Parsed(ExprStmt(r.node, name), e.pos)))))

parse_set_stmt(tokens, pos) ==
    Then(eat(tokens, pos, "KW_SET"), LAMBDA k :
        Then(eat(tokens, k.pos, "ID"), LAMBDA n :
            Then(eat(tokens, n.pos, "EQUAL"), LAMBDA q :
                Then(eat(tokens, q.pos, "BOOL"), LAMBDA b :
                    Then(eat(tokens, b.pos, "SEMICOL"), LAMBDA e :
                        Parsed(SetStmt(tokens[k.pos].value, tokens[q.pos].value = <<"1">>), e.pos))))))

parse_table_stmt(tokens, pos) ==
    Then(eat(tokens, pos, "KW_TABLE"), LAMBDA k :
        IF tokens[k.pos].type = "ID"
        THEN Then(eat(tokens, k.pos + 1, "SEMICOL"), LAMBDA e :
                 Parsed(TableStmt(tokens[k.pos].value), e.pos))
        ELSE Then(eat(tokens, k.pos, "SEMICOL"), LAMBDA e : Parsed(TableStmt(None), e.pos)))

parse_eval_stmt(tokens, pos) ==
    Then(eat(tokens, pos, "KW_EVAL"), LAMBDA k :
        Then(eat(tokens, k.pos, "SEMICOL"), LAMBDA e : Parsed(EvalStmt, e.pos)))

parse_rule_stmt(tokens, pos) ==
    Then(eat(tokens, pos, "ID"), LAMBDA n :
        Then(eat(tokens, n.pos, "COLON"), LAMBDA c :
            Then(parse_expression(tokens, c.pos), LAMBDA r :
                Then(eat(tokens, r.pos, "SEMICOL"), LAMBDA e :
                    Parsed(RuleStmt(tokens[pos].value, r.node), e.pos)))))

\* the while loop of parse_infer_stmt, with rule_names and the position in r
RECURSIVE parse_infer_loop(_, _)
parse_infer_loop(tokens, r) ==
    IF tokens[r.pos].type = "COMMA"
    THEN Then(eat(tokens, r.pos + 1, "ID"), LAMBDA n :
             parse_infer_loop(tokens, Parsed(Append(r.node, tokens[r.pos + 1].value), n.pos)))
    ELSE r

parse_infer_stmt(tokens, pos) ==
    Then(eat(tokens, pos, "KW_INFER"), LAMBDA k :
        Then(eat(tokens, k.pos, "ID"), LAMBDA n :
            Then(parse_infer_loop(tokens, Parsed(<<tokens[k.pos].value>>, n.pos)), LAMBDA r :
                Then(eat(tokens, r.pos, "SEMICOL"), LAMBDA e :
                    Parsed(InferStmt(r.node), e.pos)))))

parse_stmt(tokens, pos) ==
    CASE tokens[pos].type = "KW_EXPR" -> parse_expr_stmt(tokens, pos)
      [] tokens[pos].type = "KW_SET" -> parse_set_stmt(tokens, pos)
      [] tokens[pos].type = "KW_TABLE" -> parse_table_stmt(tokens, pos)
      [] tokens[pos].type = "KW_EVAL" -> parse_eval_stmt(tokens, pos)
      [] tokens[pos].type = "KW_INFER" -> parse_infer_stmt(tokens, pos)
      [] tokens[pos].type = "ID" /\ peek(tokens, pos).type = "COLON" -> parse_rule_stmt(tokens, pos)
      [] tokens[pos].type = "ID" /\ peek(tokens, pos).type # "COLON" ->
             ParseError(<<"unexpected_id_at_start_of_statement">>)
      [] OTHER -> ParseError(<<"unexpected_token_at_start_of_statement", tokens[pos].type>>)

\* the loop of parse: r.node is the list of statements so far
RECURSIVE parse_from(_, _)
parse_from(tokens, r) ==
    IF tokens[r.pos].type = "EOF" THEN r
    ELSE Then(parse_stmt(tokens, r.pos), LAMBDA st :
             parse_from(tokens, Parsed(Append(r.node, st.node), st.pos)))

\* Parser(tokens).parse(): [node, pos, error] with node = Program.statements
parse(tokens) == parse_from(tokens, Parsed(<<>>, 1))

-----------------------------------------------------------------------------
(* IRGenerator (ir_generator.py).  The generator's state is                 *)
(* [temp_counter, code]; an expression visit also returns its result word.  *)

\* the dict op_map of visit_expression
op_map(op) == CASE op = "&" -> kAND
                [] op = "|" -> kOR
                [] op = "->" -> kIMPLIES
                [] op = "xor" -> kXOR

\* f"{temp} = {op} {left} {right}", f"{temp} = NOT {operand}", f"{name} = {result}"
BinLine(temp, op, left, right) == <<temp, kEQ, op, left, right>>
NotLine(temp, operand) == <<temp, kEQ, kNOT, operand>>
AssignLine(name, result) == <<name, kEQ, result>>

new_temp(temp_counter) == kt \o str(temp_counter + 1)

BoolWord(value) == IF value THEN k1 ELSE k0

RECURSIVE visit_expression(_, _)
visit_expression(node, g) ==
    CASE node.node = "BinaryOp" ->
            LET l == visit_expression(node.left, g)
                r == visit_expression(node.right, [temp_counter |-> l.temp_counter, code |-> l.code])
                temp == new_temp(r.temp_counter)
            IN  [temp_counter |-> r.temp_counter + 1,
                 code |-> Append(r.code, BinLine(temp, op_map(node.op), l.result, r.result)),
                 result |-> temp]
      [] node.node = "UnaryOp" ->
            LET o == visit_expression(node.operand, g)
                temp == new_temp(o.temp_counter)
            IN  [temp_counter |-> o.temp_counter + 1,
                 code |-> Append(o.code, NotLine(temp, o.result)),
                 result |-> temp]
      [] node.node = "Literal" ->
            [temp_counter |-> g.temp_counter, code |-> g.code, result |-> BoolWord(node.value)]
      [] node.node = "Var" ->
            [temp_counter |-> g.temp_counter, code |-> g.code, result |-> node.name]

visit_ExprStmt(node, g) ==
    LET e == visit_expression(node.expr, g)
        named == IF node.name # None THEN Append(e.code, AssignLine(node.name, e.result))
                 ELSE e.code
    IN  [temp_counter |-> e.temp_counter,
         code |-> IF Len(named) = 0 THEN <<AssignLine(kt_res, e.result)>> ELSE named]

visit_SetStmt(node, g) ==
    [temp_counter |-> g.temp_counter,
     code |-> Append(g.code, AssignLine(node.name, BoolWord(node.value)))]

visit_TableStmt(node, g) ==
    [temp_counter |-> g.temp_counter,
     code |-> Append(g.code, <<kTABLE, IF node.target_id # None THEN node.target_id ELSE kLAST_EXPR>>)]

visit_EvalStmt(node, g) ==
    [temp_counter |-> g.temp_counter, code |-> Append(g.code, <<kEVAL>>)]

visit_RuleStmt(node, g) ==
    LET e == visit_expression(node.expr, g)
    IN  [temp_counter |-> e.temp_counter,
         code |-> Append(e.code, AssignLine(node.name, e.result))]

\* " ".join(node.rule_names) after "INFER ": the names are the words that follow
visit_InferStmt(node, g) ==
    [temp_counter |-> g.temp_counter, code |-> Append(g.code, <<kINFER>> \o node.rule_names)]

\* IRGenerator.generate: the code restarts empty, the counter is the generator's
generate(node, temp_counter) ==
    LET g == [temp_counter |-> temp_counter, code |-> <<>>]
    IN  CASE node.node = "ExprStmt" -> visit_ExprStmt(node, g)
          [] node.node = "SetStmt" -> visit_SetStmt(node, g)
          [] node.node = "TableStmt" -> visit_TableStmt(node, g)
          [] node.node = "EvalStmt" -> visit_EvalStmt(node, g)
          [] node.node = "RuleStmt" -> visit_RuleStmt(node, g)
          [] node.node = "InferStmt" -> visit_InferStmt(node, g)

-----------------------------------------------------------------------------
(* Optimizer (optimizer.py) *)

\* the AND rules of one line `res = AND arg1 arg2`
fold_AND(line, res, arg1, arg2) ==
    IF arg1 = k0 \/ arg2 = k0 THEN AssignLine(res, k0)
    ELSE IF arg1 = k1 /\ arg2 = k1 THEN AssignLine(res, k1)
    ELSE IF arg1 = k1 THEN AssignLine(res, arg2)
    ELSE IF arg2 = k1 THEN AssignLine(res, arg1)
    ELSE line

\* the OR rules
fold_OR(line, res, arg1, arg2) ==
    IF arg1 = k1 \/ arg2 = k1 THEN AssignLine(res, k1)
    ELSE IF arg1 = k0 /\ arg2 = k0 THEN AssignLine(res, k0)
    ELSE IF arg1 = k0 THEN AssignLine(res, arg2)
    ELSE IF arg2 = k0 THEN AssignLine(res, arg1)
    ELSE line

\* the XOR rules
fold_XOR(line, res, arg1, arg2) ==
    IF arg1 = k0 /\ arg2 = k0 THEN AssignLine(res, k0)
    ELSE IF arg1 = k1 /\ arg2 = k1 THEN AssignLine(res, k0)
    ELSE IF (arg1 = k0 /\ arg2 = k1) \/ (arg1 = k1 /\ arg2 = k0) THEN AssignLine(res, k1)
    ELSE IF arg1 = k0 THEN AssignLine(res, arg2)
    ELSE IF arg2 = k0 THEN AssignLine(res, arg1)
    ELSE line

\* (variant: IMPLIES folded like the other operators when both operands are literals)
fold_binary_implies(line) ==
    LET res == line[1]
        op == line[3]
        arg1 == line[4]
        arg2 == line[5]
    IN  IF op = kAND THEN fold_AND(line, res, arg1, arg2)
        ELSE IF op = kOR THEN fold_OR(line, res, arg1, arg2)
        ELSE IF op = kXOR THEN fold_XOR(line, res, arg1, arg2)
        ELSE IF op = kIMPLIES /\ arg1 \in {k0, k1} /\ arg2 \in {k0, k1}
             THEN AssignLine(res, IF arg1 = k0 \/ arg2 = k1 THEN k1 ELSE k0)
        ELSE line

\* the binary rules, reached when the line has exactly five words
fold_binary(line) ==
    LET res == line[1]
        op == line[3]
        arg1 == line[4]
        arg2 == line[5]
    IN  IF op = kAND THEN fold_AND(line, res, arg1, arg2)
        ELSE IF op = kOR THEN fold_OR(line, res, arg1, arg2)
        ELSE IF op = kXOR THEN fold_XOR(line, res, arg1, arg2)
        ELSE line

\* the NOT rule, tested under the guard of optimize_line
fold_NOT(line) ==
    IF line[3] = kNOT /\ line[4] = k0 THEN AssignLine(line[1], k1)
    ELSE IF line[3] = kNOT /\ line[4] = k1 THEN AssignLine(line[1], k0)
    ELSE IF Len(line) = 5 THEN fold_binary(line)
    ELSE line

\* (variant: a literal second operand is first moved to the front, and the
\* line folded only when it is met again)
optimize_line_swapping(line) ==
    IF /\ Len(line) = 5 /\ line[2] = kEQ /\ line[3] \in {kAND, kOR, kXOR}
       /\ line[5] \in {k0, k1} /\ line[4] \notin {k0, k1}
    THEN <<line[1], kEQ, line[3], line[5], line[4]>>
    ELSE IF Len(line) >= 5 /\ line[2] = kEQ THEN fold_NOT(line) ELSE line

\* the body of the loop of optimize: what is appended for one line
optimize_line(line) ==
    IF Len(line) >= 5 /\ line[2] = kEQ THEN fold_NOT(line) ELSE line

\* (variant: a line folded to a constant is removed instead of rewritten)
optimize_dropping(code) ==
    SelectSeq([i \in DOMAIN code |-> optimize_line(code[i])],
              LAMBDA l : ~(Len(l) = 3 /\ l[2] = kEQ /\ startswith(l[1], kt) /\ l[3] \in {k0, k1}))

\* Optimizer.optimize: every line appends exactly one line
optimize(code) == [i \in DOMAIN code |-> optimize_line(code[i])]

-----------------------------------------------------------------------------
(* SemanticAnalyzer (semantic.py).  The analyzer's state is                 *)
(* [declared_vars, defined_rules, error]; error is the exception raised,    *)
(* <<>> while none was.                                                     *)

\* the expression visitors check nothing and change nothing
visit_Expr(node, a) == a

visit_RuleStmt_sem(node, a) ==
    IF node.name \in a.defined_rules
    THEN [a EXCEPT !.error = <<"rule_already_defined", node.name>>]
    ELSE visit_Expr(node.expr, [a EXCEPT !.defined_rules = @ \cup {node.name}])

\* the check made on the first name only
visit_InferStmt_sem_first(node, a) ==
    IF node.rule_names[1] \notin a.defined_rules
    THEN [a EXCEPT !.error = <<"undefined_rule", node.rule_names[1]>>]
    ELSE a

visit_InferStmt_sem(node, a) ==
    IF \E i \in DOMAIN node.rule_names : node.rule_names[i] \notin a.defined_rules
    THEN LET i == CHOOSE j \in DOMAIN node.rule_names :
                      /\ node.rule_names[j] \notin a.defined_rules
                      /\ \A k \in 1..(j - 1) : node.rule_names[k] \in a.defined_rules
         IN  [a EXCEPT !.error = <<"undefined_rule", node.rule_names[i]>>]
    ELSE a

visit_stmt_sem(node, a) ==
    CASE node.node = "ExprStmt" -> visit_Expr(node.expr, a)
      [] node.node = "SetStmt" -> [a EXCEPT !.declared_vars = @ \cup {node.name}]
      [] node.node = "TableStmt" -> a
      [] node.node = "EvalStmt" -> a
      [] node.node = "RuleStmt" -> visit_RuleStmt_sem(node, a)
      [] node.node = "InferStmt" -> visit_InferStmt_sem(node, a)

\* visit_Program from statement i on: the first exception ends the traversal
RECURSIVE visit_Program_from(_, _, _)
visit_Program_from(statements, i, a) ==
    IF i > Len(statements) \/ a.error # <<>> THEN a
    ELSE visit_Program_from(statements, i + 1, visit_stmt_sem(statements[i], a))

\* SemanticAnalyzer() then visit(program)
semantic_visit(statements) ==
    visit_Program_from(statements, 1, [declared_vars |-> {}, defined_rules |-> {}, error |-> <<>>])

-----------------------------------------------------------------------------
(* Interpreter (interpreter.py) *)

EmptyMap == <<>>

Put(f, k, v) == [x \in DOMAIN f \cup {k} |-> IF x = k THEN v ELSE f[x]]

\* dict.update
Update(f, g) == [x \in DOMAIN f \cup DOMAIN g |-> IF x \in DOMAIN g THEN g[x] ELSE f[x]]

get_val(operand, context, temps) ==
    IF operand = k0 THEN 0
    ELSE IF operand = k1 THEN 1
    ELSE IF operand \in DOMAIN temps THEN temps[operand]
    ELSE IF operand \in DOMAIN context THEN context[operand]
    ELSE 0

\* the truth functions of run_code
val_AND(arg1, arg2) == IF arg1 = 1 /\ arg2 = 1 THEN 1 ELSE 0
val_OR(arg1, arg2) == IF arg1 = 1 \/ arg2 = 1 THEN 1 ELSE 0
val_IMPLIES_converse(arg1, arg2) == IF arg1 = 1 \/ arg2 = 0 THEN 1 ELSE 0
val_IMPLIES(arg1, arg2) == IF arg1 = 0 \/ arg2 = 1 THEN 1 ELSE 0
val_XOR(arg1, arg2) == IF arg1 # arg2 THEN 1 ELSE 0
val_NOT(arg1) == IF arg1 = 0 THEN 1 ELSE 0

\* words an operator line must have: parts[3] and parts[4] else raise IndexError
NeededParts(op) == IF op \in {kAND, kOR, kIMPLIES, kXOR} THEN 5
                   ELSE IF op = kNOT THEN 4 ELSE 3

line_val(parts, context, temps) ==
    LET op == parts[3]
    IN  IF op = kAND THEN val_AND(get_val(parts[4], context, temps), get_val(parts[5], context, temps))
        ELSE IF op = kOR THEN val_OR(get_val(parts[4], context, temps), get_val(parts[5], context, temps))
        ELSE IF op = kIMPLIES THEN val_IMPLIES(get_val(parts[4], context, temps), get_val(parts[5], context, temps))
        ELSE IF op = kXOR THEN val_XOR(get_val(parts[4], context, temps), get_val(parts[5], context, temps))
        ELSE IF op = kNOT THEN val_NOT(get_val(parts[4], context, temps))
        ELSE get_val(parts[3], context, temps)

\* where run_code stores a computed value: names that start with t are temporaries
is_temp_target(target) == startswith(target, kt)

\* one turn of the loop of run_code; r = [variables, context, temps, last_result, raised]
run_line(parts, r) ==
    IF parts[1] = kTABLE \/ parts[1] = kEVAL \/ parts[1] = kINFER THEN r
    ELSE IF Len(parts) >= 3 /\ parts[2] = kEQ THEN
        IF Len(parts) < NeededParts(parts[3]) THEN [r EXCEPT !.raised = TRUE]
        ELSE Bind(line_val(parts, r.context, r.temps), LAMBDA val :
                 IF is_temp_target(parts[1])
                 THEN [r EXCEPT !.temps = Put(@, parts[1], val), !.last_result = val]
                 ELSE [r EXCEPT !.variables = Put(@, parts[1], val),
                                !.context = Put(@, parts[1], val),
                                !.last_result = val])
    ELSE r

RECURSIVE run_from(_, _, _)
run_from(code, i, r) ==
    IF i > Len(code) \/ r.raised THEN r
    ELSE run_from(code, i + 1, run_line(code[i], r))

\* Interpreter.run_code(code, local_vars): [variables, last_result, raised]
run_code(vs, code, local_vars) ==
    Bind(run_from(code, 1, [variables |-> vs, context |-> Update(vs, local_vars),
                            temps |-> EmptyMap, last_result |-> 0, raised |-> FALSE]),
         LAMBDA r : [variables |-> r.variables, last_result |-> r.last_result, raised |-> r.raised])

-----------------------------------------------------------------------------
(* Printed lines.  A printed line is [kind, cells]: the cells of a header   *)
(* or a row are the strings that " | ".join puts together; the other kinds  *)
(* carry the values formatted into the message.                             *)

Printed(kind, cells) == [kind |-> kind, cells |-> cells]

kResult == <<"R","e","s","u","l","t">>

\* len(" | ".join(cells)) for the line of dashes under the header
RECURSIVE JoinedLen(_)
JoinedLen(cells) == IF Len(cells) = 0 THEN 0
                    ELSE IF Len(cells) = 1 THEN Len(cells[1])
                    ELSE Len(cells[1]) + 3 + JoinedLen(Tail(cells))

\* str.strip(';')
RECURSIVE strip_semicolon(_)
strip_semicolon(s) ==
    IF Len(s) = 0 THEN s
    ELSE IF s[1] = ";" THEN strip_semicolon(Tail(s))
    ELSE IF s[Len(s)] = ";" THEN strip_semicolon(SubSeq(s, 1, Len(s) - 1))
    ELSE s

\* the tuples with the first position changing fastest
product01_lsb(n) ==
    [i \in 1..(2 ^ n) |-> [k \in 1..n |-> ((i - 1) \div (2 ^ (k - 1))) % 2]]

\* itertools.product([0, 1], repeat=n), in the order it yields
RECURSIVE product01(_)
product01(n) ==
    IF n = 0 THEN << <<>> >>
    ELSE LET prev == product01(n - 1)
         IN  [i \in 1..(2 * Len(prev)) |-> Append(prev[(i + 1) \div 2], (i + 1) % 2)]

\* dict(zip(sorted_vars, values))
zip_dict(sorted_vars, values) ==
    [x \in Range(sorted_vars) |->
        values[CHOOSE i \in DOMAIN sorted_vars :
                  sorted_vars[i] = x /\ \A j \in DOMAIN sorted_vars : sorted_vars[j] = x => j <= i]]

-----------------------------------------------------------------------------
(* Interpreter.execute and its handlers.  A handler returns                 *)
(* [variables, out, rets, raised, target]: the store it leaves, the lines   *)
(* printed, the values run_code returned, whether an exception left it, and *)
(* the block it chose to evaluate (<<>> when it found none).                *)

\* the names collected as input variables of handle_table
is_input_var(op) == isalpha(op) /\ op \notin OpWords /\ ~startswith(op, kt)

input_vars_of(target_code) ==
    UNION {{target_code[l][i] : i \in {j \in 3..Len(target_code[l]) : is_input_var(target_code[l][j])}} :
              l \in {k \in DOMAIN target_code : Len(target_code[k]) > 2 /\ target_code[k][2] = kEQ}}

\* the rows of handle_table from row i on; t is what the handler returns so far
RECURSIVE table_rows(_, _, _, _, _)
table_rows(target_code, sorted_vars, rows, i, t) ==
    IF i > Len(rows) \/ t.raised THEN t
    ELSE Bind(run_code(t.variables, target_code, zip_dict(sorted_vars, rows[i])), LAMBDA r :
             table_rows(target_code, sorted_vars, rows, i + 1,
                 [variables |-> r.variables,
                  out |-> IF r.raised THEN t.out
                          ELSE Append(t.out, Printed("row", Append(rows[i], r.last_result))),
                  rets |-> IF r.raised THEN t.rets ELSE Append(t.rets, r.last_result),
                  raised |-> r.raised,
                  target |-> target_code]))

\* the block handle_table tabulates: <<>> stands for the unknown target
table_target_id(table_cmd) ==
    IF Len(table_cmd) > 1 /\ strip_semicolon(table_cmd[2]) # kLAST_EXPR
    THEN strip_semicolon(table_cmd[2]) ELSE None

table_target(I, code, table_cmd) ==
    Bind(table_target_id(table_cmd), LAMBDA target_id :
        IF target_id # None
        THEN IF target_id \in DOMAIN I.saved_code THEN I.saved_code[target_id] ELSE <<>>
        ELSE IF (\A l \in DOMAIN code : "=" \notin Range(Text(code[l]))) /\ Len(I.last_ir) > 0
             THEN I.last_ir
             ELSE code)

\* what a handler returns when it only prints
printed_only(vs, lines, target) ==
    [variables |-> vs, out |-> lines, rets |-> <<>>, raised |-> FALSE, target |-> target]

\* the two lines printed above the rows
table_header(sorted_vars) ==
    <<Printed("header", Append(sorted_vars, kResult)),
      Printed("dashes", <<JoinedLen(Append(sorted_vars, kResult))>>)>>

handle_table(I, code, table_cmd) ==
    Bind(table_target(I, code, table_cmd), LAMBDA target_code :
        IF target_code = <<>>
        THEN printed_only(I.variables, <<Printed("unknown_target", <<table_target_id(table_cmd)>>)>>, <<>>)
        ELSE Bind(sorted(input_vars_of(target_code)), LAMBDA sorted_vars :
            IF Len(sorted_vars) = 0
            THEN printed_only(I.variables, <<Printed("no_variables", <<>>)>>, target_code)
            ELSE table_rows(target_code, sorted_vars, product01(Len(sorted_vars)), 1,
                     printed_only(I.variables, table_header(sorted_vars), target_code))))

handle_eval(I) ==
    IF Len(I.last_ir) > 0
    THEN Bind(run_code(I.variables, I.last_ir, EmptyMap), LAMBDA r :
             [variables |-> r.variables,
              out |-> IF r.raised THEN <<>> ELSE <<Printed("value", <<r.last_result>>)>>,
              rets |-> IF r.raised THEN <<>> ELSE <<r.last_result>>,
              raised |-> r.raised,
              target |-> I.last_ir])
    ELSE printed_only(I.variables, <<Printed("no_expression", <<>>)>>, <<>>)

\* the lines handle_infer prints for `line`, given the store
handle_infer(vs, line) ==
    LET rules == Tail(line)
    IN  <<Printed("inferring", rules)>> \o
        [i \in DOMAIN rules |->
            IF rules[i] \in DOMAIN vs THEN Printed("rule_value", <<rules[i], vs[rules[i]]>>)
            ELSE Printed("rule_undefined", <<rules[i]>>)]

\* the classification loop of execute
line_is_expr(parts) ==
    \/ \E i \in DOMAIN parts : parts[i] \in OpWords
    \/ startswith(parts[1], kt)
    \/ (Len(parts) >= 3 /\ parts[2] = kEQ /\ ~startswith(parts[1], kt) /\ parts[3] \notin {k0, k1})

is_expr(code) == \E l \in DOMAIN code : line_is_expr(code[l])

output_vars(code) ==
    {code[l][1] : l \in {k \in DOMAIN code :
        /\ Len(code[k]) >= 3
        /\ code[k][2] = kEQ
        /\ ~startswith(code[k][1], kt)
        /\ code[k][3] \notin {k0, k1}}}

\* the caches written for every block, a set or a command included
classify_always(I, code) ==
    [I EXCEPT !.last_ir = code,
              !.saved_code = Update(@, [v \in output_vars(code) |-> code])]

\* the caches after the classification step
classify(I, code) ==
    IF is_expr(code)
    THEN [I EXCEPT !.last_ir = code,
                   !.saved_code = Update(@, [v \in output_vars(code) |-> code])]
    ELSE I

\* the first line that starts with TABLE or EVAL, 0 when there is none
command_line(code) ==
    IF \E l \in DOMAIN code : startswith(Text(code[l]), kTABLE) \/ startswith(Text(code[l]), kEVAL)
    THEN CHOOSE l \in DOMAIN code :
            /\ startswith(Text(code[l]), kTABLE) \/ startswith(Text(code[l]), kEVAL)
            /\ \A k \in 1..(l - 1) :
                   ~(startswith(Text(code[k]), kTABLE) \/ startswith(Text(code[k]), kEVAL))
    ELSE 0

\* the first line that starts with INFER, 0 when there is none
infer_line(code) ==
    IF \E l \in DOMAIN code : startswith(Text(code[l]), kINFER)
    THEN CHOOSE l \in DOMAIN code :
            /\ startswith(Text(code[l]), kINFER)
            /\ \A k \in 1..(l - 1) : ~startswith(Text(code[k]), kINFER)
    ELSE 0

\* what execute returns: the interpreter left (the caches of C, the store of
\* the handler h), the lines printed, the handler taken, the values run_code
\* returned, and whether an exception left it
executed(C, h, handler) ==
    [I |-> [C EXCEPT !.variables = h.variables], out |-> h.out,
     handler |-> handler, rets |-> h.rets, raised |-> h.raised, target |-> h.target]

\* the normal execution: run_code, then the INFER line if there is one
run_and_infer(vs, code) ==
    Bind(run_code(vs, code, EmptyMap), LAMBDA r :
        [variables |-> r.variables,
         out |-> IF r.raised \/ infer_line(code) = 0 THEN <<>>
                 ELSE handle_infer(r.variables, code[infer_line(code)]),
         rets |-> IF r.raised THEN <<>> ELSE <<r.last_result>>,
         raised |-> r.raised,
         target |-> code])

\* Interpreter.execute(code) on the interpreter I = [variables, last_ir, saved_code]
execute(I, code) ==
    Bind(classify(I, code), LAMBDA C :
        Bind(command_line(code), LAMBDA c :
            IF c # 0 /\ startswith(Text(code[c]), kTABLE)
            THEN Bind(handle_table(C, code, code[c]), LAMBDA h : executed(C, h, "TABLE"))
            ELSE IF c # 0
            THEN Bind(handle_eval(C), LAMBDA h : executed(C, h, "EVAL"))
            ELSE Bind(run_and_infer(C.variables, code), LAMBDA h : executed(C, h, "RUN"))))

-----------------------------------------------------------------------------
(* process_input (logiceval.py), which is also the quick mode of the REPL   *)
(* of Logic_horizon.py: a program is the list of statements the parser      *)
(* returned for one chunk of text.                                          *)

\* the loop over program.statements from statement i on;
\* P = [I, out, calls, raised], one IRGenerator (temp_counter) for the loop.
\* A call keeps the block generated (ir), the block executed (code), the
\* interpreter before and after (pre, post) and what the handler did.
RECURSIVE process_statements(_, _, _, _)
process_statements(statements, i, temp_counter, P) ==
    IF i > Len(statements) \/ P.raised THEN P
    ELSE Bind(generate(statements[i], temp_counter), LAMBDA g :
           Bind(optimize(g.code), LAMBDA opt_code :
             Bind(execute(P.I, opt_code), LAMBDA e :
               process_statements(statements, i + 1, g.temp_counter,
                 [I |-> e.I,
                  out |-> P.out \o e.out,
                  calls |-> Append(P.calls, [ir |-> g.code, code |-> opt_code,
                                             pre |-> P.I, post |-> e.I,
                                             handler |-> e.handler,
                                             rets |-> e.rets, out |-> e.out,
                                             target |-> e.target]),
                  raised |-> e.raised]))))

\* statements processed so far in the session
RECURSIVE Processed(_)
Processed(h) == IF Len(h) = 0 THEN 0 ELSE Len(h[1].program) + Processed(Tail(h))

\* the interpreter as the state holds it
Interp == [variables |-> variables, last_ir |-> last_ir, saved_code |-> saved_code]

\* an entry of history: the text given (<<>> when the statements were given
\* parsed), the statements parsed, how the call ended, and the interpreter
\* before and after it
Entry(text, program, status, post) ==
    [text |-> text, program |-> program, status |-> status, pre |-> Interp, post |-> post]

\* process_input from the semantic check on, for the statements parsed
Compile(text, program) ==
    \E a \in {semantic_visit(program)} :
        IF a.error # <<>>
        THEN /\ out' = <<Printed("error", a.error)>>
             /\ calls' = <<>>
             /\ history' = Append(history, Entry(text, program, "semantic_error", Interp))
             /\ UNCHANGED <<variables, last_ir, saved_code>>
        ELSE \E P \in {process_statements(program, 1, 0,
                 [I |-> Interp, out |-> <<>>, calls |-> <<>>, raised |-> FALSE])} :
             /\ variables' = P.I.variables
             /\ last_ir' = P.I.last_ir
             /\ saved_code' = P.I.saved_code
             /\ out' = IF P.raised THEN Append(P.out, Printed("error", <<"IndexError">>)) ELSE P.out
             /\ calls' = P.calls
             /\ history' = Append(history,
                    Entry(text, program, IF P.raised THEN "exception" ELSE "ok", P.I))

\* process_input when the lexer or the parser raised: the message is printed
Rejected(text, status, error) ==
    /\ out' = <<Printed("error", error)>>
    /\ calls' = <<>>
    /\ history' = Append(history, Entry(text, <<>>, status, Interp))
    /\ UNCHANGED <<variables, last_ir, saved_code>>

\* process_input on statements already parsed
ProcessInput(program, limit) ==
    /\ optIn = <<>>
    /\ Processed(history) + Len(program) <= limit
    /\ Compile(<<>>, program)
    /\ UNCHANGED <<optIn, optOut, optAgain>>

\* process_input(text, interpreter)
ProcessText(text, limit) ==
    /\ optIn = <<>>
    /\ Len(history) < limit
    /\ \E l \in {tokenize(text)} :
           IF l.error # <<>> THEN Rejected(text, "lexical_error", l.error)
           ELSE \E p \in {parse(l.tokens)} :
                    IF p.error # <<>> THEN Rejected(text, "parse_error", p.error)
                    ELSE Compile(text, p.node)
    /\ UNCHANGED <<optIn, optOut, optAgain>>

-----------------------------------------------------------------------------
(* compileAndRun (Logic_horizon.py): the pipeline of file mode and of the    *)
(* verbose REPL.  Of what it prints, only the lines the interpreter prints  *)
(* are kept in out.                                                         *)

\* generateIntermediateCode: one IRGenerator, the blocks of all statements
\* extended into one list
RECURSIVE generate_all(_, _, _, _)
generate_all(statements, i, temp_counter, all_code) ==
    IF i > Len(statements) THEN all_code
    ELSE Bind(generate(statements[i], temp_counter), LAMBDA g :
             generate_all(statements, i + 1, g.temp_counter, all_code \o g.code))

\* compileAndRun on statements already parsed
CompileAndRun(program, limit) ==
    /\ optIn = <<>>
    /\ Processed(history) + Len(program) <= limit
    /\ \E a \in {semantic_visit(program)} :
           IF a.error # <<>>
           THEN /\ out' = <<Printed("error", a.error)>>
                /\ calls' = <<>>
                /\ history' = Append(history, Entry(<<>>, program, "semantic_error", Interp))
                /\ UNCHANGED <<variables, last_ir, saved_code>>
           ELSE \E all_code \in {generate_all(program, 1, 0, <<>>)} :
                \E e \in {execute(Interp, optimize(all_code))} :
                    /\ variables' = e.I.variables
                    /\ last_ir' = e.I.last_ir
                    /\ saved_code' = e.I.saved_code
                    /\ out' = IF e.raised THEN Append(e.out, Printed("error", <<"IndexError">>)) ELSE e.out
                    /\ calls' = <<[ir |-> all_code, code |-> optimize(all_code),
                                   pre |-> Interp, post |-> e.I, handler |-> e.handler,
                                   rets |-> e.rets, out |-> e.out, target |-> e.target]>>
                    /\ history' = Append(history,
                           Entry(<<>>, program, IF e.raised THEN "exception" ELSE "ok", e.I))
    /\ UNCHANGED <<optIn, optOut, optAgain>>

\* Optimizer.optimize called on the block optIn
Optimize ==
    /\ optIn # <<>>
    /\ optOut = <<>>
    /\ optOut' = optimize(optIn)
    /\ UNCHANGED <<variables, last_ir, saved_code, out, calls, history, optIn, optAgain>>

-----------------------------------------------------------------------------
(* Inputs *)

nA == <<"A">>
nB == <<"B">>
nR == <<"R">>
nfoo == <<"f","o","o">>
ntv == <<"t","v">>
nt1 == <<"t","1">>
nt2 == <<"t","2">>

\* programs of 1..n statements over the statements S
Programs(S, n) == UNION {[1..k -> S] : k \in 1..n}

InitSession ==
    /\ variables = EmptyMap
    /\ last_ir = <<>>
    /\ saved_code = EmptyMap
    /\ out = <<>>
    /\ calls = <<>>
    /\ history = <<>>
    /\ optIn = <<>>
    /\ optOut = <<>>
    /\ optAgain = <<>>

\* set A, set B, and the five operators over A and B
TruthStmts ==
    {SetStmt(n, v) : n \in {nA, nB}, v \in BOOLEAN}
    \cup {ExprStmt(BinaryOp(Var(nA), op, Var(nB)), None) : op \in {"&", "|", "->", "xor"}}
    \cup {ExprStmt(UnaryOp("!", Var(nA)), None)}

NextTruth == \E program \in Programs(TruthStmts, MaxChunk) : ProcessInput(program, MaxTruthStmts)

SpecTruth == InitSession /\ [][NextTruth]_vars


\* rules R and foo, R a second time with another expression, inferences over
\* one and two names, and a set
RuleStmts ==
    {RuleStmt(nR, Var(nA)), RuleStmt(nR, Var(nB)),
     RuleStmt(nfoo, BinaryOp(Var(nA), "|", Var(nB))),
     InferStmt(<<nR>>), InferStmt(<<nR, nfoo>>),
     SetStmt(nA, TRUE)}

NextRules == \E program \in Programs(RuleStmts, MaxChunk) : ProcessInput(program, MaxRuleStmts)

SpecRules == InitSession /\ [][NextRules]_vars


\* sets of A and B, two unnamed expressions, and eval
EvalStmts ==
    {SetStmt(nA, TRUE), SetStmt(nA, FALSE), SetStmt(nB, FALSE),
     ExprStmt(BinaryOp(Var(nA), "&", Var(nB)), None),
     ExprStmt(UnaryOp("!", Var(nA)), None),
     EvalStmt}

NextEval == \E program \in Programs(EvalStmts, MaxChunk) : ProcessInput(program, MaxEvalStmts)

SpecEval == InitSession /\ [][NextEval]_vars


nC == <<"C">>

\* rules over two, one, no and three input variables, named expressions, a
\* set, and tables of a rule, of a named expression and of the last expression
TableStmts ==
    {RuleStmt(nR, BinaryOp(Var(nA), "|", Var(nB))),
     RuleStmt(nR, BinaryOp(Var(ntv), "|", Var(nB))),
     RuleStmt(nR, BinaryOp(Var(nA), "&", Literal(FALSE))),
     RuleStmt(nR, BinaryOp(Var(nC), "|", BinaryOp(Var(nB), "&", Var(nA)))),
     ExprStmt(BinaryOp(Var(nA), "&", Var(nB)), nfoo),
     ExprStmt(Literal(TRUE), nfoo),
     SetStmt(nA, TRUE),
     TableStmt(nR), TableStmt(nfoo), TableStmt(None)}

NextTable == \E program \in Programs(TableStmts, MaxChunk) : ProcessInput(program, MaxTableStmts)

SpecTable == InitSession /\ [][NextTable]_vars


\* sets of A, B and tv, an unnamed and a named expression
SetStmts ==
    {SetStmt(nA, TRUE), SetStmt(nA, FALSE), SetStmt(nB, TRUE), SetStmt(ntv, TRUE),
     ExprStmt(BinaryOp(Var(nA), "&", Var(nB)), None),
     ExprStmt(BinaryOp(Var(nA), "|", Var(nB)), nfoo)}

NextSet == \E program \in Programs(SetStmts, MaxChunk) : ProcessInput(program, MaxSetStmts)

SpecSet == InitSession /\ [][NextSet]_vars


\* the words of source text
w_expr == <<"e","x","p","r">>
w_set == <<"s","e","t">>
w_table == <<"t","a","b","l","e">>
w_infer == <<"i","n","f","e","r">>
w_xor == <<"x","o","r">>
w_arrow == <<"-", ">">>
nAND == <<"A","N","D">>

\* chunks that pass, chunks the lexer, the parser and the semantic check
\* reject, and tables of names that no block was cached for
ErrTexts ==
    {Text(<<w_set, nA, <<"=">>, <<"1">>, <<";">>>>),
     Text(<<w_expr, nA, <<"&">>, nB, <<";">>>>),
     Text(<<nR, <<":">>, nA, <<"|">>, nB, <<";">>>>),
     Text(<<w_expr, nA, <<"$">>, nB, <<";">>>>),
     Text(<<w_expr, nA, <<"-">>, nB, <<";">>>>),
     Text(<<w_expr, nA, <<"&">>, <<";">>>>),
     Text(<<nR, <<":">>, nA, <<";">>, nR, <<":">>, nB, <<";">>>>),
     Text(<<w_infer, nR, <<";">>>>),
     Text(<<w_table, nfoo, <<";">>>>),
     Text(<<w_set, nB, <<"=">>, <<"1">>, <<";">>, w_table, nfoo, <<";">>>>),
     Text(<<w_table, nAND, <<";">>>>)}

NextErr == \E text \in ErrTexts : ProcessText(text, MaxErrTexts)

SpecErr == InitSession /\ [][NextErr]_vars


\* a set, an expression, a rule, its table and inference, a table of the last
\* expression and an eval
PipeStmts ==
    {SetStmt(nA, TRUE),
     ExprStmt(BinaryOp(Var(nA), "&", Var(nB)), None),
     RuleStmt(nR, BinaryOp(Var(nA), "|", Var(nB))),
     TableStmt(nR), TableStmt(None), EvalStmt, InferStmt(<<nR>>)}

\* a program goes through process_input or through compileAndRun
NextPipe ==
    \E program \in Programs(PipeStmts, MaxChunk) :
        \/ ProcessInput(program, MaxPipeStmts)
        \/ CompileAndRun(program, MaxPipeStmts)

SpecPipe == InitSession /\ [][NextPipe]_vars


\* the binary operators as they are written, `^` and `xor` both
OpWordsOfText == {<<"&">>, <<"^">>, w_xor, <<"|">>, w_arrow}

\* an operand as written: a name, or a name under `!`
Operand(name, negated) == IF negated THEN <<<<"!">>, name>> ELSE <<name>>

\* `expr a o1 b o2 C ;` with a and b possibly negated
PrecText(n1, o1, n2, o2) ==
    Text(<<w_expr>> \o Operand(nA, n1) \o <<o1>> \o Operand(nB, n2) \o <<o2, nC, <<";">>>>)

PrecTexts ==
    {PrecText(n1, o1, n2, o2) : n1 \in BOOLEAN, o1 \in OpWordsOfText,
                                n2 \in BOOLEAN, o2 \in OpWordsOfText}

\* `expr first second tail`: what may stand after the first identifier, and
\* the ends that make a statement of it
NameFirsts == {nA, nfoo}
NameFollowers == {nB, <<"(">>, <<"!">>, <<"0">>, <<"1">>}
NameSeconds == NameFollowers \cup {<<"&">>, <<"|">>, <<"^">>, w_xor, w_arrow, <<";">>}
NameTails == {<<>>, <<<<";">>>>, <<nB, <<";">>>>, <<nB, <<")">>, <<";">>>>, <<<<"&">>, nB, <<";">>>>}

NameText(first, second, tail) == Text(<<w_expr, first, second>> \o tail)

NameTexts == {NameText(first, second, tail) :
                 first \in NameFirsts, second \in NameSeconds, tail \in NameTails}

ParseTexts == PrecTexts \cup NameTexts

NextParse == \E text \in ParseTexts : ProcessText(text, MaxParseTexts)

SpecParse == InitSession /\ [][NextParse]_vars


\* the blocks the optimizer is given alone: every shape of line of the IR
\* expressions over the identifiers A, t1 and t2: one operator, and one
\* operator with a parenthesised right operand
TempNames == {nA, nt1, nt2}

TempTexts ==
    {Text(<<w_expr, x, o, y, <<";">>>>) : x \in TempNames, o \in {<<"&">>, <<"|">>}, y \in TempNames}
    \cup {Text(<<w_expr, x, <<"|">>, <<"(">>, nA, <<"&">>, nB, <<")">>, <<";">>>>) : x \in TempNames}

NextTemps == \E text \in TempTexts : ProcessText(text, MaxTempTexts)

SpecTemps == InitSession /\ [][NextTemps]_vars


\* a rule R, expressions named AND and A, sets of A and B, and the tables of
\* R, AND, A and of the last expression
FrameTexts ==
    {Text(<<nR, <<":">>, nA, <<"|">>, nB, <<";">>>>),
     Text(<<w_expr, nAND, nA, <<"|">>, nB, <<";">>>>),
     Text(<<w_expr, nA, nA, <<"&">>, nB, <<";">>>>),
     Text(<<w_set, nA, <<"=">>, <<"1">>, <<";">>>>),
     Text(<<w_set, nB, <<"=">>, <<"0">>, <<";">>>>),
     Text(<<w_table, nR, <<";">>>>),
     Text(<<w_table, nAND, <<";">>>>),
     Text(<<w_table, nA, <<";">>>>),
     Text(<<w_table, <<";">>>>)}

NextFrame == \E text \in FrameTexts : ProcessText(text, MaxFrameTexts)

SpecFrame == InitSession /\ [][NextFrame]_vars


\* rules followed by their inference in the same text (the semantic check
\* knows the rules of one text only), over the names R, foo and tv, and sets
InferTexts ==
    {Text(<<nR, <<":">>, nA, <<"|">>, nB, <<";">>, w_infer, nR, <<";">>>>),
     Text(<<w_set, nA, <<"=">>, <<"1">>, <<";">>, nR, <<":">>, nA, <<"&">>, nB, <<";">>, w_infer, nR, <<";">>>>),
     Text(<<nR, <<":">>, nA, <<";">>, nfoo, <<":">>, <<"!">>, nA, <<";">>,
            w_infer, nfoo, <<",">>, nR, <<";">>>>),
     Text(<<ntv, <<":">>, nA, <<"|">>, nB, <<";">>, w_infer, ntv, <<";">>>>),
     Text(<<w_set, nA, <<"=">>, <<"1">>, <<";">>>>),
     Text(<<w_set, nB, <<"=">>, <<"1">>, <<";">>>>)}

NextInfer == \E text \in InferTexts : ProcessText(text, MaxInferTexts)

SpecInfer == InitSession /\ [][NextInfer]_vars


\* sets of A, and expressions with a literal operand over the identifiers A
\* and AND, unnamed, named and as a rule
FoldTexts ==
    {Text(<<w_set, nA, <<"=">>, v, <<";">>>>) : v \in {<<"0">>, <<"1">>}}
    \cup {Text(<<w_expr, x, o, v, <<";">>>>) :
              x \in {nA, nAND}, o \in {<<"&">>, <<"|">>, <<"^">>}, v \in {<<"0">>, <<"1">>}}
    \cup {Text(<<w_expr, nfoo, <<"1">>, w_arrow, nA, <<";">>>>),
          Text(<<w_expr, <<"!">>, <<"1">>, <<";">>>>),
          Text(<<nR, <<":">>, <<"0">>, <<"|">>, nA, <<"&">>, <<"1">>, <<";">>>>)}

NextFold == \E text \in FoldTexts : ProcessText(text, MaxFoldTexts)

SpecFold == InitSession /\ [][NextFold]_vars


\* the keyword `eval`
w_eval == <<"e","v","a","l">>

\* a set, a named expression and a rule whose names are the identifiers EVAL
\* and TABLE, an expression and a set over A and B, and the two commands
CmdTexts ==
    {Text(<<w_set, kEVAL, <<"=">>, <<"1">>, <<";">>>>),
     Text(<<w_expr, kTABLE, nA, <<"|">>, nB, <<";">>>>),
     Text(<<kEVAL, <<":">>, nA, <<";">>>>),
     Text(<<w_expr, nA, <<"&">>, nB, <<";">>>>),
     Text(<<w_set, nA, <<"=">>, <<"1">>, <<";">>>>),
     Text(<<w_table, <<";">>>>),
     Text(<<w_eval, <<";">>>>)}

NextCmd == \E text \in CmdTexts : ProcessText(text, MaxCmdTexts)

SpecCmd == InitSession /\ [][NextCmd]_vars


\* the rule R over A and B and over A1 and B, sets of A, A1 and B, and the
\* table of R
StoreTexts ==
    {Text(<<nR, <<":">>, nA, <<"|">>, nB, <<";">>>>),
     Text(<<nR, <<":">>, <<"A", "1">>, <<"|">>, nB, <<";">>>>),
     Text(<<w_set, nA, <<"=">>, <<"1">>, <<";">>>>),
     Text(<<w_set, <<"A", "1">>, <<"=">>, <<"1">>, <<";">>>>),
     Text(<<w_set, nB, <<"=">>, <<"1">>, <<";">>>>),
     Text(<<w_table, nR, <<";">>>>)}

NextStore == \E text \in StoreTexts : ProcessText(text, MaxStoreTexts)

SpecStore == InitSession /\ [][NextStore]_vars


OptArgs == {k0, k1, nA, nt1}

OptLines ==
    {BinLine(nt2, op, a, b) : op \in {kAND, kOR, kXOR, kIMPLIES}, a \in OptArgs, b \in OptArgs}
    \cup {NotLine(nt2, a) : a \in OptArgs}
    \cup {AssignLine(nR, nt2), AssignLine(nA, k1)}
    \cup {<<kTABLE, nR>>, <<kEVAL>>, <<kINFER, nR, nA, nB, nfoo>>}

InitOpt ==
    /\ variables = EmptyMap
    /\ last_ir = <<>>
    /\ saved_code = EmptyMap
    /\ out = <<>>
    /\ calls = <<>>
    /\ history = <<>>
    /\ optIn \in Programs(OptLines, MaxBlockLen)
    /\ optOut = <<>>
    /\ optAgain = <<>>

NextOpt == Optimize

\* the optimizer called a second time, on what it returned
OptimizeAgain ==
    /\ optOut # <<>>
    /\ optAgain = <<>>
    /\ optAgain' = optimize(optOut)
    /\ UNCHANGED <<variables, last_ir, saved_code, out, calls, history, optIn, optOut>>

NextOptTwice == Optimize \/ OptimizeAgain

SpecOptTwice == InitOpt /\ [][NextOptTwice]_vars

SpecOpt == InitOpt /\ [][NextOpt]_vars

-----------------------------------------------------------------------------
(* Properties *)

Bit(p) == IF p THEN 1 ELSE 0

\* the program processed last, and whether its last statement is s
Last == history[Len(history)]
LastStmtIs(s) == Len(history) > 0 /\ Last.status = "ok" /\ Last.program[Len(Last.program)] = s

\* the values the evaluator returned for the last statement of the last program
LastRets == calls[Len(calls)].rets

\* C1: with A = a and B = b in the store, the evaluator returns a AND b for
\* `expr A & B;`, a OR b for `expr A | B;`, (NOT a) OR b for `expr A -> B;`,
\* a # b for `expr A xor B;` and NOT a for `expr !A;`.
C1_TruthTables ==
    ({nA, nB} \subseteq DOMAIN variables) =>
        LET a == variables[nA] = 1
            b == variables[nB] = 1
        IN  /\ LastStmtIs(ExprStmt(BinaryOp(Var(nA), "&", Var(nB)), None)) => LastRets = <<Bit(a /\ b)>>
            /\ LastStmtIs(ExprStmt(BinaryOp(Var(nA), "|", Var(nB)), None)) => LastRets = <<Bit(a \/ b)>>
            /\ LastStmtIs(ExprStmt(BinaryOp(Var(nA), "->", Var(nB)), None)) => LastRets = <<Bit(~a \/ b)>>
            /\ LastStmtIs(ExprStmt(BinaryOp(Var(nA), "xor", Var(nB)), None)) => LastRets = <<Bit(a # b)>>
            /\ LastStmtIs(ExprStmt(UnaryOp("!", Var(nA)), None)) => LastRets = <<Bit(~a)>>

\* A = 1, B = 0 and `expr A -> B;` has just returned 0
C1_Witness ==
    /\ {nA, nB} \subseteq DOMAIN variables
    /\ variables[nA] = 1
    /\ variables[nB] = 0
    /\ LastStmtIs(ExprStmt(BinaryOp(Var(nA), "->", Var(nB)), None))
    /\ LastRets = <<0>>


\* the optimizer has run
Optimized == optOut # <<>>

IsLiteral(w) == w \in {k0, k1}

\* a line `res = OP a b` with OP one of the four binary operators
IsBinaryInstr(line) == Len(line) = 5 /\ line[2] = kEQ /\ line[3] \in {kAND, kOR, kXOR, kIMPLIES}

\* the rule table of the optimizer, by the class of the two operands
RuleTable(line) ==
    LET res == line[1]
        op == line[3]
        a == line[4]
        b == line[5]
        other == IF IsLiteral(a) THEN b ELSE a
    IN  CASE op = kAND /\ k0 \in {a, b} -> <<res, kEQ, k0>>
          [] op = kAND /\ k0 \notin {a, b} /\ IsLiteral(a) /\ IsLiteral(b) -> <<res, kEQ, k1>>
          [] op = kAND /\ k0 \notin {a, b} /\ (IsLiteral(a) # IsLiteral(b)) -> <<res, kEQ, other>>
          [] op = kOR /\ k1 \in {a, b} -> <<res, kEQ, k1>>
          [] op = kOR /\ k1 \notin {a, b} /\ IsLiteral(a) /\ IsLiteral(b) -> <<res, kEQ, k0>>
          [] op = kOR /\ k1 \notin {a, b} /\ (IsLiteral(a) # IsLiteral(b)) -> <<res, kEQ, other>>
          [] op = kXOR /\ IsLiteral(a) /\ IsLiteral(b) -> <<res, kEQ, BoolWord(a # b)>>
          [] op = kXOR /\ (IsLiteral(a) # IsLiteral(b)) /\ k0 \in {a, b} -> <<res, kEQ, other>>
          [] OTHER -> line

\* C8: every instruction `res = OP a b`, OP in {AND, OR, XOR, IMPLIES}, comes out
\* of the optimizer as the rule table says: AND with a literal 0 is `res = 0`,
\* AND 1 1 is `res = 1`, AND with one literal 1 is `res = <other>`; OR dually;
\* XOR of two literals is the literal result, XOR with one literal 0 is
\* `res = <other>`; any IMPLIES, `X xor 1`, `X xor X` and two names are unchanged.
C8_RuleTable ==
    Optimized =>
        \A i \in DOMAIN optIn : IsBinaryInstr(optIn[i]) => optOut[i] = RuleTable(optIn[i])

\* `t2 = XOR A 0` came out as `t2 = A` and `t2 = IMPLIES 1 1` came out unchanged
C8_Witness ==
    /\ Optimized
    /\ optIn = <<BinLine(nt2, kXOR, nA, k0), BinLine(nt2, kIMPLIES, k1, k1)>>
    /\ optOut = <<AssignLine(nt2, nA), BinLine(nt2, kIMPLIES, k1, k1)>>

\* C9: a NOT instruction with a literal operand comes out as the assignment of
\* the negated literal: `t = NOT 0` as `t = 1`, `t = NOT 1` as `t = 0`.
C9_NotFolded ==
    Optimized =>
        \A i \in DOMAIN optIn :
            /\ optIn[i] = NotLine(optIn[i][1], k0) => optOut[i] = AssignLine(optIn[i][1], k1)
            /\ optIn[i] = NotLine(optIn[i][1], k1) => optOut[i] = AssignLine(optIn[i][1], k0)

IsCommandLine(line) == line[1] \in {kTABLE, kEVAL, kINFER}
IsPlainAssignment(line) == Len(line) = 3 /\ line[2] = kEQ

\* C10: the optimizer returns as many lines as it was given, in the same order:
\* line i of the output assigns the target of line i of the input, and a
\* command line or a plain assignment is returned as it was.
C10_ShapeKept ==
    Optimized =>
        /\ Len(optOut) = Len(optIn)
        /\ \A i \in DOMAIN optIn :
              /\ i \in DOMAIN optOut
              /\ optOut[i][1] = optIn[i][1]
              /\ (Len(optIn[i]) >= 3 /\ optIn[i][2] = kEQ) => optOut[i][2] = kEQ
              /\ (IsCommandLine(optIn[i]) \/ IsPlainAssignment(optIn[i])) => optOut[i] = optIn[i]

\* INFER with four names (five
\* words) unchanged, then `t2 = AND 0 A` folded in place
C10_Witness ==
    /\ Optimized
    /\ optIn = <<<<kINFER, nR, nA, nB, nfoo>>, BinLine(nt2, kAND, k0, nA)>>
    /\ optOut = <<<<kINFER, nR, nA, nB, nfoo>>, AssignLine(nt2, k0)>>


\* the statements of the programs that were executed (those that passed the
\* semantic check), in order
RECURSIVE ExecutedStmts(_)
ExecutedStmts(h) ==
    IF Len(h) = 0 THEN <<>>
    ELSE (IF h[1].status = "ok" THEN h[1].program ELSE <<>>) \o ExecutedStmts(Tail(h))

\* the programs processed before the last one
Before == SubSeq(history, 1, Len(history) - 1)

\* a rule statement for the name is among the statements
DefinesRule(stmts, name) ==
    \E i \in DOMAIN stmts : stmts[i].node = "RuleStmt" /\ stmts[i].name = name

\* C4: in any session, a rule statement whose name was already defined as a
\* rule, by a statement executed earlier in the session or standing earlier in
\* the same program, fails with a semantic error and nothing of its program is
\* generated or executed.
C4_RedefinitionFails ==
    Len(history) > 0 =>
        \A j \in DOMAIN Last.program :
            (/\ Last.program[j].node = "RuleStmt"
             /\ \/ DefinesRule(ExecutedStmts(Before), Last.program[j].name)
                \/ DefinesRule(SubSeq(Last.program, 1, j - 1), Last.program[j].name))
            => Last.status = "semantic_error" /\ calls = <<>>

\* C5: a program with an `infer` statement naming a rule that no rule statement
\* earlier in the same program defines ends in a semantic error, and no block
\* of the program, the INFER block included, is passed to Interpreter.execute.
C5_UndefinedInferFails ==
    Len(history) > 0 =>
        \A j \in DOMAIN Last.program :
            (/\ Last.program[j].node = "InferStmt"
             /\ \E k \in DOMAIN Last.program[j].rule_names :
                    ~DefinesRule(SubSeq(Last.program, 1, j - 1), Last.program[j].rule_names[k]))
            => Last.status = "semantic_error" /\ calls = <<>>

\* `R: A; infer R, foo;` given as one program: R is defined, foo is not, the
\* error names foo and nothing was executed
C5_Witness ==
    /\ Len(history) = 1
    /\ Last.program = <<RuleStmt(nR, Var(nA)), InferStmt(<<nR, nfoo>>)>>
    /\ Last.status = "semantic_error"
    /\ out = <<Printed("error", <<"undefined_rule", nfoo>>)>>
    /\ calls = <<>>
    /\ variables = EmptyMap


\* the value of an expression of the language under a store; a name the store
\* does not hold is 0
RECURSIVE Sem(_, _)
Sem(e, store) ==
    CASE e.node = "Var" -> IF e.name \in DOMAIN store THEN store[e.name] ELSE 0
      [] e.node = "Literal" -> Bit(e.value)
      [] e.node = "UnaryOp" -> 1 - Sem(e.operand, store)
      [] e.node = "BinaryOp" /\ e.op = "&" -> Bit(Sem(e.left, store) = 1 /\ Sem(e.right, store) = 1)
      [] e.node = "BinaryOp" /\ e.op = "|" -> Bit(Sem(e.left, store) = 1 \/ Sem(e.right, store) = 1)
      [] e.node = "BinaryOp" /\ e.op = "->" -> Bit(Sem(e.left, store) = 0 \/ Sem(e.right, store) = 1)
      [] e.node = "BinaryOp" /\ e.op = "xor" -> Bit(Sem(e.left, store) # Sem(e.right, store))

\* the place of the most recent expression statement among the statements, 0
\* when there is none
LastExprIndex(stmts) ==
    IF \E i \in DOMAIN stmts : stmts[i].node = "ExprStmt"
    THEN CHOOSE i \in DOMAIN stmts :
             /\ stmts[i].node = "ExprStmt"
             /\ \A j \in DOMAIN stmts : j > i => stmts[j].node # "ExprStmt"
    ELSE 0

\* the lines the last statement of the last program printed
LastOut == calls[Len(calls)].out

\* C6: `eval;` prints the value of the most recent expression statement of the
\* session under the store as it is now (not as it was when the expression was
\* given), and reports that there is nothing to evaluate when the session has
\* executed no expression yet.
C6_EvalReruns ==
    LastStmtIs(EvalStmt) =>
        \E i \in {LastExprIndex(ExecutedStmts(history))} :
            LastOut = IF i = 0
                      THEN <<Printed("no_expression", <<>>)>>
                      ELSE <<Printed("value", <<Sem(ExecutedStmts(history)[i].expr, variables)>>)>>

\* `set A = 1; set B = 0; expr A & B;` left the store {A: 1, B: 0} and `eval;`
\* printed 0
C6_Witness ==
    /\ ExecutedStmts(history) = <<SetStmt(nA, TRUE), SetStmt(nB, FALSE),
                                  ExprStmt(BinaryOp(Var(nA), "&", Var(nB)), None), EvalStmt>>
    /\ variables = [x \in {nA, nB} |-> IF x = nA THEN 1 ELSE 0]
    /\ last_ir = <<BinLine(nt1, kAND, nA, nB)>>
    /\ LastOut = <<Printed("value", <<0>>)>>


\* the calls of the last program that tabulated a block they had found
TableCalls == {i \in DOMAIN calls : calls[i].handler = "TABLE" /\ calls[i].target # <<>>}

\* the lines of a table of 2^n rows: a header of n columns in strictly
\* ascending order and `Result`, the dashes, and row i holding the binary
\* digits of i - 1, the first column the most significant
IsTableOf(lines, names) ==
    \E n \in {Cardinality(names)} :
        /\ Len(lines) = 2 + 2 ^ n
        /\ lines[1].kind = "header"
        /\ Len(lines[1].cells) = n + 1
        /\ {lines[1].cells[k] : k \in 1..n} = names
        /\ lines[1].cells[n + 1] = kResult
        /\ \A k \in 1..(n - 1) : StrLess(lines[1].cells[k], lines[1].cells[k + 1])
        /\ lines[2].kind = "dashes"
        /\ \A i \in 1..(2 ^ n) :
              /\ lines[2 + i].kind = "row"
              /\ Len(lines[2 + i].cells) = n + 1
              /\ \A k \in 1..n : lines[2 + i].cells[k] = ((i - 1) \div (2 ^ (n - k))) % 2

RECURSIVE VarsOf(_)
VarsOf(e) ==
    CASE e.node = "Var" -> {e.name}
      [] e.node = "Literal" -> {}
      [] e.node = "UnaryOp" -> VarsOf(e.operand)
      [] e.node = "BinaryOp" -> VarsOf(e.left) \cup VarsOf(e.right)

\* the place of the most recent rule statement for the name, 0 when there is none
LastRuleIndex(stmts, name) ==
    IF DefinesRule(stmts, name)
    THEN CHOOSE i \in DOMAIN stmts :
             /\ stmts[i].node = "RuleStmt" /\ stmts[i].name = name
             /\ \A j \in DOMAIN stmts : j > i => ~(stmts[j].node = "RuleStmt" /\ stmts[j].name = name)
    ELSE 0

\* none of the names was the target of a set
NeverSet(stmts, names) ==
    \A i \in DOMAIN stmts : stmts[i].node = "SetStmt" => stmts[i].name \notin names

\* the lines are the truth table of the expression: its variables in sorted
\* order and `Result` in the header, and in every row the value of the
\* expression under the assignment the row gives
IsTruthTableOf(lines, e) ==
    \E cols \in {sorted(VarsOf(e))} :
        /\ Len(lines) > 2
        /\ lines[1] = Printed("header", Append(cols, kResult))
        /\ \A i \in 3..Len(lines) :
              /\ lines[i].kind = "row"
              /\ Len(lines[i].cells) = Len(cols) + 1
              /\ lines[i].cells[Len(cols) + 1] = Sem(e, zip_dict(cols, lines[i].cells))

\* C3: for a rule R whose variables were never set, `table R;` prints the
\* header of those variables in sorted order followed by `Result`, and in every
\* row the last column is the value of R's expression under the row's
\* assignment.
C3_RuleTruthTable ==
    LastStmtIs(TableStmt(nR)) =>
        \E k \in {LastRuleIndex(ExecutedStmts(history), nR)} :
            (k > 0 /\ NeverSet(ExecutedStmts(history), VarsOf(ExecutedStmts(history)[k].expr)))
            => IsTruthTableOf(LastOut, ExecutedStmts(history)[k].expr)

\* a named expression for the name stands before the last of the statements
NamedBefore(stmts, name) ==
    \E i \in 1..(Len(stmts) - 1) : stmts[i].node = "ExprStmt" /\ stmts[i].name = name

\* C7: once `expr foo <e>;` has been executed, `table foo;` finds a block cached
\* for foo and tabulates that block instead of reporting an unknown target,
\* whatever was executed in between and whatever last_ir is.
C7_NamedTableSucceeds ==
    (LastStmtIs(TableStmt(nfoo)) /\ NamedBefore(ExecutedStmts(history), nfoo)) =>
        /\ nfoo \in DOMAIN saved_code
        /\ calls[Len(calls)].target = saved_code[nfoo]
        /\ LastOut # <<Printed("unknown_target", <<nfoo>>)>>


\* C11: running the optimizer on its own output changes nothing:
\* optimize(optimize(b)) is optimize(b) for every block b.
C11_Idempotent ==
    optAgain # <<>> => optAgain = optOut

\* `t2 = AND A 1` came out as `t2 = A` and `t2 = XOR A 1` unchanged, and the
\* second run returned the same two lines
C11_Witness ==
    /\ optIn = <<BinLine(nt2, kAND, nA, k1), BinLine(nt2, kXOR, nA, k1)>>
    /\ optOut = <<AssignLine(nt2, nA), BinLine(nt2, kXOR, nA, k1)>>
    /\ optAgain = optOut


\* C12: executing the block of `set X = v;` has exactly one effect, for every
\* identifier X: variables[X] becomes v, and last_ir, saved_code and every
\* other variable are what they were before the call.
C12_SetFrame ==
    \A i \in DOMAIN calls :
        Last.program[i].node = "SetStmt" =>
            /\ calls[i].post.variables =
                   Put(calls[i].pre.variables, Last.program[i].name, Bit(Last.program[i].value))
            /\ calls[i].post.last_ir = calls[i].pre.last_ir
            /\ calls[i].post.saved_code = calls[i].pre.saved_code


\* C13: when a chunk fails with a lexical, parse or semantic error, or a
\* `table` statement fails on an unknown target, variables, saved_code and
\* last_ir are exactly what they were before the failing statement.
C13_FailureKeepsState ==
    Len(history) > 0 =>
        /\ Last.status \in {"lexical_error", "parse_error", "semantic_error"} =>
               Last.post = Last.pre /\ calls = <<>>
        /\ \A i \in DOMAIN calls :
               (calls[i].handler = "TABLE" /\ calls[i].out = <<Printed("unknown_target", <<Last.program[i].target_id>>)>>)
               => calls[i].post = calls[i].pre


\* the lines of a block that are commands
CommandLines(code) == {l \in DOMAIN code : IsCommandLine(code[l])}

\* C14: for every program a front end accepts, Interpreter.execute is called
\* once per statement, in program order, with the block of that statement
\* alone: every executed block has at most one command line, and every table,
\* eval and infer statement is handled.
C14_OneCallPerStatement ==
    (Len(history) > 0 /\ Last.status = "ok") =>
        /\ Len(calls) = Len(Last.program)
        /\ \A i \in DOMAIN calls :
              /\ Cardinality(CommandLines(calls[i].code)) <= 1
              /\ Last.program[i].node = "TableStmt" => calls[i].handler = "TABLE"
              /\ Last.program[i].node = "EvalStmt" => calls[i].handler = "EVAL"
              /\ Last.program[i].node = "InferStmt" =>
                     calls[i].handler = "RUN" /\ calls[i].out # <<>>


\* the operator of the node built for an operator as written
NodeOp(o) ==
    CASE o = <<"&">> -> "&"
      [] o = <<"|">> -> "|"
      [] o = w_arrow -> "->"
      [] o \in {<<"^">>, w_xor} -> "xor"

\* how tightly an operator binds: AND over XOR over OR over IMPLIES
Binding(o) ==
    CASE NodeOp(o) = "&" -> 3
      [] NodeOp(o) = "xor" -> 2
      [] NodeOp(o) = "|" -> 1
      [] NodeOp(o) = "->" -> 0

\* the node of an operand: NOT binds tighter than every binary operator
OperandNode(name, negated) == IF negated THEN UnaryOp("!", Var(name)) ELSE Var(name)

\* the tree `a o1 b o2 c` stands for: the tighter operator first, equal
\* operators from the left, `->` from the right
Grouped(a, o1, b, o2, c) ==
    IF Binding(o1) > Binding(o2) \/ (Binding(o1) = Binding(o2) /\ NodeOp(o1) # "->")
    THEN BinaryOp(BinaryOp(a, NodeOp(o1), b), NodeOp(o2), c)
    ELSE BinaryOp(a, NodeOp(o1), BinaryOp(b, NodeOp(o2), c))

\* C15: the parser builds expressions with NOT tighter than AND, AND tighter
\* than XOR, XOR tighter than OR and OR tighter than IMPLIES; AND, XOR and OR
\* group from the left and IMPLIES from the right; `^` and `xor` build the same
\* operator node.
C15_Precedence ==
    Len(history) > 0 =>
        \A n1 \in BOOLEAN, o1 \in OpWordsOfText, n2 \in BOOLEAN, o2 \in OpWordsOfText :
            Last.text = PrecText(n1, o1, n2, o2) =>
                /\ Last.status = "ok"
                /\ Last.program = <<ExprStmt(Grouped(OperandNode(nA, n1), o1,
                                                      OperandNode(nB, n2), o2, Var(nC)), None)>>

\* `expr A -> B -> C ;` was parsed as A -> (B -> C)
C15_Witness ==
    /\ Len(history) > 0
    /\ Last.text = Text(<<w_expr, nA, w_arrow, nB, w_arrow, nC, <<";">>>>)
    /\ Last.program = <<ExprStmt(BinaryOp(Var(nA), "->", BinaryOp(Var(nB), "->", Var(nC))), None)>>


\* the texts `expr first second tail` that are statements of the language
IsStatement(second, tail) ==
    \/ second \in {nB, <<"0">>, <<"1">>} /\ tail \in {<<<<";">>>>, <<<<"&">>, nB, <<";">>>>}
    \/ second = <<"(">> /\ tail = <<nB, <<")">>, <<";">>>>
    \/ second = <<"!">> /\ tail = <<nB, <<";">>>>
    \/ second \in {<<"&">>, <<"|">>, <<"^">>, w_xor, w_arrow} /\ tail = <<nB, <<";">>>>
    \/ second = <<";">> /\ tail = <<>>

\* the leftmost operand of an expression
RECURSIVE Leftmost(_)
Leftmost(e) == IF e.node = "BinaryOp" THEN Leftmost(e.left) ELSE e

\* C16: in an `expr` statement the first identifier is the binding name if and
\* only if another identifier, `(`, `!` or a boolean literal follows it at
\* once; otherwise it is the first operand of the expression and the
\* statement has no name.  `expr A;` is the unnamed expression A.
C16_NameLookahead ==
    Len(history) > 0 =>
        \A first \in NameFirsts, second \in NameSeconds, tail \in NameTails :
            Last.text = NameText(first, second, tail) =>
                /\ IsStatement(second, tail) <=> Last.status = "ok"
                /\ Last.status = "ok" =>
                       /\ Len(Last.program) = 1
                       /\ Last.program[1].node = "ExprStmt"
                       /\ second \in NameFollowers <=> Last.program[1].name = first
                       /\ second \notin NameFollowers =>
                              /\ Last.program[1].name = None
                              /\ Leftmost(Last.program[1].expr) = Var(first)

\* `expr foo B & B ;` was parsed with the name foo and the expression B & B
C16_Witness ==
    /\ Len(history) > 0
    /\ Last.text = Text(<<w_expr, nfoo, nB, <<"&">>, nB, <<";">>>>)
    /\ Last.program = <<ExprStmt(BinaryOp(Var(nB), "&", Var(nB)), nfoo)>>


\* C17: the temporary counter restarts for each call of generate: the block
\* generated for a statement is the block a new generator gives for it,
\* whatever statements the same generator lowered before it.
C17_CounterRestarts ==
    \A i \in DOMAIN calls : calls[i].ir = generate(Last.program[i], 0).code


\* a name of the form t<N>
IsTempName(w) ==
    /\ Len(w) >= 2
    /\ w[1] = "t"
    /\ \A k \in 2..Len(w) : \E d \in DOMAIN DigitChars : w[k] = DigitChars[d]

\* the words of an instruction line that are read: all after `=` but the operator
OperandWords(line) ==
    IF Len(line) < 3 \/ line[2] # kEQ THEN {}
    ELSE IF Len(line) = 3 THEN {line[3]}
    ELSE {line[k] : k \in 4..Len(line)}

\* C18: in every block the generator produces, a temporary that is an operand
\* is assigned by an earlier line of the block, and no temporary is assigned
\* twice in the block.
C18_TempsAssignedOnceBefore ==
    \A c \in DOMAIN calls :
        \A i \in DOMAIN calls[c].ir :
            /\ \A w \in OperandWords(calls[c].ir[i]) :
                   IsTempName(w) => \E j \in 1..(i - 1) : calls[c].ir[j][1] = w
            /\ IsTempName(calls[c].ir[i][1]) =>
                   \A j \in DOMAIN calls[c].ir : j # i => calls[c].ir[j][1] # calls[c].ir[i][1]


\* a rule statement or a named expression
IsNaming(stmt) ==
    \/ stmt.node = "RuleStmt"
    \/ stmt.node = "ExprStmt" /\ stmt.name # None

\* C19: after the block of a rule statement `N: e;` or of a named expression
\* `expr N e;` has been executed, saved_code[N] is exactly that block.
C19_SavedBlock ==
    \A c \in DOMAIN calls :
        IsNaming(Last.program[c]) =>
            /\ Last.program[c].name \in DOMAIN calls[c].post.saved_code
            /\ calls[c].post.saved_code[Last.program[c].name] = calls[c].code


\* the assignment targets of a block that are not temporaries
NonTempTargets(block) ==
    {block[l][1] : l \in {k \in DOMAIN block : /\ Len(block[k]) >= 3
                                                /\ block[k][2] = kEQ
                                                /\ ~is_temp_target(block[k][1])}}

\* the variables after the block has run with all of its input variables 1
FinalRow(vs, block) ==
    run_code(vs, block, [x \in input_vars_of(block) |-> 1]).variables

\* C20: a `table` statement leaves last_ir and saved_code as they were; of the
\* variables it changes only the assignment targets of the tabulated block
\* that are not temporaries, and each of them ends with the value of the final
\* row, the one with every input variable 1.  Every other variable, the input
\* variables of the table among them, has the value it had before.
C20_TableFrame ==
    \A c \in DOMAIN calls :
        Last.program[c].node = "TableStmt" =>
            /\ calls[c].post.last_ir = calls[c].pre.last_ir
            /\ calls[c].post.saved_code = calls[c].pre.saved_code
            /\ DOMAIN calls[c].pre.variables \subseteq DOMAIN calls[c].post.variables
            /\ \A v \in DOMAIN calls[c].post.variables :
                   IF v \in NonTempTargets(calls[c].target)
                   THEN calls[c].post.variables[v] = FinalRow(calls[c].pre.variables, calls[c].target)[v]
                   ELSE /\ v \in DOMAIN calls[c].pre.variables
                        /\ calls[c].post.variables[v] = calls[c].pre.variables[v]


\* the call of the program that ran the rule statement of the name
RuleCall(program, name) ==
    CHOOSE j \in DOMAIN program : program[j].node = "RuleStmt" /\ program[j].name = name

\* C21: in a program that passed the semantic check the INFER handler reports
\* no rule as undefined: every name of an `infer` statement is in `variables`
\* with the value its rule statement computed, and the handler prints the
\* values in the order of the names.
C21_InferNeverUndefined ==
    \A c \in DOMAIN calls :
        Last.program[c].node = "InferStmt" =>
            /\ \A i \in DOMAIN Last.program[c].rule_names :
                   /\ Last.program[c].rule_names[i] \in DOMAIN calls[c].post.variables
                   /\ calls[RuleCall(Last.program, Last.program[c].rule_names[i])].rets
                          = <<calls[c].post.variables[Last.program[c].rule_names[i]]>>
            /\ calls[c].out =
                   <<Printed("inferring", Last.program[c].rule_names)>> \o
                   [i \in DOMAIN Last.program[c].rule_names |->
                       Printed("rule_value",
                               <<Last.program[c].rule_names[i],
                                 calls[c].post.variables[Last.program[c].rule_names[i]]>>)]


\* C22: optimization preserves evaluation: for every block the generator
\* produced and the variables it met, running the optimized block raises only
\* if running the block raises, and otherwise returns the same value and
\* leaves the same variables.
C22_OptimizePreservesEvaluation ==
    \A c \in DOMAIN calls :
        calls[c].handler = "RUN" =>
            \A b \in {run_code(calls[c].pre.variables, calls[c].ir, EmptyMap)},
               o \in {run_code(calls[c].pre.variables, calls[c].code, EmptyMap)} :
                /\ o.raised => b.raised
                /\ ~b.raised => /\ o.last_result = b.last_result
                                /\ o.variables = b.variables


\* C23: execute hands a block to the TABLE handler only for a table
\* statement and to the EVAL handler only for an eval statement; the blocks of
\* set, expr and rule statements are run through the evaluator, whatever
\* identifiers they assign or use.
C23_HandlersOnlyForCommands ==
    \A c \in DOMAIN calls :
        /\ calls[c].handler = "TABLE" => Last.program[c].node = "TableStmt"
        /\ calls[c].handler = "EVAL" => Last.program[c].node = "EvalStmt"
        /\ Last.program[c].node \in {"SetStmt", "ExprStmt", "RuleStmt"} => calls[c].handler = "RUN"


\* C24: the lines `table N;` prints depend on the block cached for N alone
\* and not on `variables`: they are the lines the same statement prints in a
\* session with the same saved_code and no variable set.
C24_TableIndependentOfVariables ==
    \A c \in DOMAIN calls :
        (Last.program[c].node = "TableStmt" /\ calls[c].target # <<>>) =>
            calls[c].out = handle_table([calls[c].pre EXCEPT !.variables = EmptyMap],
                                        calls[c].code, calls[c].code[1]).out

====
